---- MODULE Spec2Model ----
(***************************************************************************)
(* Model of src/main.py: the setlist.fm -> Spotify playlist converter.     *)
(*                                                                         *)
(* A text (Python str) is a sequence of tokens; a token is a run of        *)
(* characters that holds no separator ("/", "-", " ", "\n", ".").  The     *)
(* separators are tokens of their own, so replace(), strip(), split() and  *)
(* the "in" test are computed on the text and not looked up.               *)
(* An Optional value is a sequence of length 0 (None) or 1.                *)
(*                                                                         *)
(* Spec runs main on lists of up to MaxUrls urls against pages of up to    *)
(* MaxSongs song labels; SpecLong runs it on one url at most against pages *)
(* of up to MaxLongSetlist song labels.  calls, invoked, log and resolved  *)
(* are history variables of the process_setlist call in progress.          *)
(***************************************************************************)
EXTENDS Integers, Sequences, FiniteSets, TLC

(* ------------------------------ bounds --------------------------------- *)
MaxUrls == 2
MaxSongs == 1
MaxLongSetlist == 3
MaxCandidates == 2

(* ------------------------------ texts ---------------------------------- *)
LF == "\n"
SP == " "
Whitespace == {SP, LF}

RECURSIVE LStrip(_)
LStrip(s) == IF s # <<>> /\ Head(s) \in Whitespace THEN LStrip(Tail(s)) ELSE s

RECURSIVE RStrip(_)
RStrip(s) ==
    IF s # <<>> /\ s[Len(s)] \in Whitespace THEN RStrip(SubSeq(s, 1, Len(s) - 1)) ELSE s

\* str.strip()
Strip(s) == RStrip(LStrip(s))

\* str.replace(old, new) for one-token old and new
Replace(s, old, new) == [i \in DOMAIN s |-> IF s[i] = old THEN new ELSE s[i]]

\* one word of str.title(): first letter upper case, the rest lower case
TitleWord(w) ==
    CASE w = "circa" -> "Circa"
      [] w = "waves" -> "Waves"
      [] w = "jun" -> "Jun"
      [] w = "barrowland" -> "Barrowland"
      [] w = "GLASGOW" -> "Glasgow"
      [] OTHER -> w

\* str.title()
Title(s) == [i \in DOMAIN s |-> TitleWord(s[i])]

EndsWith(s, suffix) ==
    /\ Len(s) >= Len(suffix)
    /\ SubSeq(s, Len(s) - Len(suffix) + 1, Len(s)) = suffix

(* ------------------------------ inputs --------------------------------- *)
SetlistFm == <<"setlist", ".", "fm">>
WwwSetlistFm == <<"www", ".", "setlist", ".", "fm">>
SetlistSeg == <<"setlist">>
ArtistSlug == <<"circa", "-", "waves">>

Url(netloc, path) == [netloc |-> netloc, path |-> path]

\* a path is the sequence of its segments: "/" + seg1 + "/" + seg2 ...
Urls ==
    { \* https://www.setlist.fm/setlist/circa-waves/2025
      Url(WwwSetlistFm, <<SetlistSeg, ArtistSlug, <<"2025">>>>),
      \* https://www.setlist.fm/stats/setlist/circa-waves
      Url(WwwSetlistFm, <<<<"stats">>, SetlistSeg, ArtistSlug>>),
      \* https://www.setlist.fm/setlist
      Url(WwwSetlistFm, <<SetlistSeg>>),
      \* https://setlist.fm/setlist/circa-waves/2025
      Url(SetlistFm, <<SetlistSeg, ArtistSlug, <<"2025">>>>),
      \* https://[www.setlist.fm/setlist/circa-waves: urlparse raises ValueError on it
      Url(<<"[", "www", ".", "setlist", ".", "fm">>, <<SetlistSeg, ArtistSlug>>) }

RECURSIVE SeqsUpTo(_, _)
SeqsUpTo(S, n) ==
    IF n = 0 THEN {<<>>}
    ELSE LET shorter == SeqsUpTo(S, n - 1)
         IN  shorter \cup {Append(q, x) : q \in shorter, x \in S}

UrlLists == SeqsUpTo(Urls, MaxUrls)

DateTexts == {<<LF, "jun", LF, "12", LF, "2025", LF>>}
DateContainers == {<<>>} \cup {<<[dateBlock |-> b]>> : b \in {<<>>} \cup {<<t>> : t \in DateTexts}}
VenueLinks == {<<>>, <<<<SP, "barrowland", SP, "GLASGOW", LF>>>>}
RawLabels == {<<SP, "Fire">>, <<"Japan", LF>>, <<SP>>}
SongsLists(n) == {<<>>} \cup {<<l>> : l \in SeqsUpTo(RawLabels, n)}

\* the parsed pages (BeautifulSoup) with at most n song labels, by the elements
\* the converter looks up
Docs(n) ==
    [dateBlockContainer : DateContainers,
     venueLink : VenueLinks,
     emptySetlist : BOOLEAN,
     songsLists : SongsLists(n)]

Tracks == {"spotify:track:1", "spotify:track:2"}
PlaylistIds == {"pl1", "pl2"}
SearchError == "SpotifyException"
\* what sp.search gives: an exception, or the items of results["tracks"]
SearchResponses == {[error |-> TRUE, items |-> <<>>]} \cup
                   {[error |-> FALSE, items |-> c] : c \in SeqsUpTo(Tracks, MaxCandidates)}

\* what became of one sp.search call
ResponseKind(resp) ==
    IF resp.error THEN "error" ELSE IF Len(resp.items) = 0 THEN "empty" ELSE "items"

(* ------------------------------ results -------------------------------- *)
NoExc == ""
Ok(v) == [raised |-> NoExc, detail |-> "", value |-> v]
Raise(e, d, dflt) == [raised |-> e, detail |-> d, value |-> dflt]

VARIABLES
    labelLimit,     \* the most song labels a page of setlist.fm holds
    urls,           \* main: the list the for loop iterates
    public,         \* config.public
    pc,             \* position of the program
    idx,            \* number of process_setlist calls started
    processed,      \* the urls whose process_setlist call has returned
    url,            \* process_setlist: its argument
    artist, souped, setlist_date, venue, song_labels, song_links,
    nextLabel,      \* position of the generator over song_labels
    resolved,       \* the values get_song_link returned in this call, in order
    playlist_name, playlist_id,
    exc,            \* the exception in flight: [raised, detail]
    calls,          \* network calls issued by this process_setlist call
    invoked,        \* extraction helpers invoked by this process_setlist call
    log             \* log records written by this process_setlist call

vars == <<labelLimit, urls, public, pc, idx, processed, url, artist, souped, setlist_date, venue,
          song_labels, song_links, nextLabel, resolved, playlist_name, playlist_id,
          exc, calls, invoked, log>>

locals == <<artist, souped, setlist_date, venue, song_labels, song_links, nextLabel,
            resolved, playlist_name, playlist_id>>

NoException == [raised |-> NoExc, detail |-> ""]
NoUrl == [netloc |-> <<>>, path |-> <<>>]

\* the state when main starts, for pages of at most n song labels and the url lists U
InitWith(n, U) ==
    /\ labelLimit = n
    /\ urls \in U
    /\ public \in BOOLEAN
    /\ pc = "setup"
    /\ idx = 0
    /\ processed = <<>>
    /\ url = NoUrl
    /\ artist = <<>>
    /\ souped = <<>>
    /\ setlist_date = <<>>
    /\ venue = <<>>
    /\ song_labels = <<>>
    /\ song_links = <<>>
    /\ nextLabel = 1
    /\ resolved = <<>>
    /\ playlist_name = <<>>
    /\ playlist_id = ""
    /\ exc = NoException
    /\ calls = <<>>
    /\ invoked = {}
    /\ log = <<>>

Init == InitWith(MaxSongs, UrlLists)

LogRec(level, msg, detail) == [level |-> level, msg |-> msg, detail |-> detail]

(* ------------------------------ main ----------------------------------- *)
\* SetlistConverter(config) and the reading of the input file
Setup ==
    /\ pc = "setup"
    /\ \E r \in {"ok", "auth_error", "file_error"} :
          pc' = IF r = "ok" THEN "loop" ELSE "aborted"
    /\ UNCHANGED <<labelLimit, urls, public, idx, processed, url, locals, exc, calls, invoked, log>>

\* a frame of process_setlist that is not running: no local is bound
FrameCleared ==
    /\ artist' = <<>>
    /\ souped' = <<>>
    /\ setlist_date' = <<>>
    /\ venue' = <<>>
    /\ song_labels' = <<>>
    /\ song_links' = <<>>
    /\ nextLabel' = 1
    /\ resolved' = <<>>
    /\ playlist_name' = <<>>
    /\ playlist_id' = ""
    /\ exc' = NoException
    /\ calls' = <<>>
    /\ invoked' = {}
    /\ log' = <<>>

\* for url in urls: converter.process_setlist(url)
CallProcessSetlist ==
    /\ pc = "loop"
    /\ idx < Len(urls)
    /\ idx' = idx + 1
    /\ url' = urls[idx + 1]
    /\ pc' = "validate"
    /\ FrameCleared
    /\ UNCHANGED <<labelLimit, urls, public, processed>>

LoopEnd ==
    /\ pc = "loop"
    /\ idx = Len(urls)
    /\ pc' = "done"
    /\ UNCHANGED <<labelLimit, urls, public, idx, processed, url, locals, exc, calls, invoked, log>>

(* ------------------- SetlistConverter: pure helpers -------------------- *)
\* urllib.parse.urlparse: ValueError on an unbalanced "[" in the netloc
urlparse(u) ==
    LET hasOpen == \E i \in DOMAIN u.netloc : u.netloc[i] = "["
        hasClose == \E i \in DOMAIN u.netloc : u.netloc[i] = "]"
    IN  IF hasOpen # hasClose
        THEN Raise("ValueError", "Invalid IPv6 URL", NoUrl)
        ELSE Ok([netloc |-> u.netloc, path |-> u.path])

\* "/setlist/" in parsed.path
PathHasSetlistDir(path) == \E i \in 1..(Len(path) - 1) : path[i] = SetlistSeg

validate_setlist_url_suffix_host(u) ==
    LET parsed == urlparse(u)
    IN  IF parsed.raised # NoExc THEN FALSE
        ELSE EndsWith(parsed.value.netloc, SetlistFm) /\ PathHasSetlistDir(parsed.value.path)

validate_setlist_url(u) ==
    LET parsed == urlparse(u)
    IN  IF parsed.raised # NoExc THEN FALSE
        ELSE parsed.value.netloc = WwwSetlistFm /\ PathHasSetlistDir(parsed.value.path)

\* the url text is scheme://netloc/seg1/seg2...: "setlist.fm/setlist/" occurs at
\* component k when k ends in setlist.fm, k+1 is "setlist" and a "/" follows it
SepOccursAt(comps, k) ==
    /\ k + 2 <= Len(comps)
    /\ EndsWith(comps[k], SetlistFm)
    /\ comps[k + 1] = SetlistSeg

\* url.split("setlist.fm/setlist/")[1].split("/")[0]
url_artist_slug(u) ==
    LET comps == <<u.netloc>> \o u.path
        occ == {k \in 1..Len(comps) : SepOccursAt(comps, k)}
    IN  IF occ = {}
        THEN Raise("IndexError", "list index out of range", <<>>)
        ELSE LET k == CHOOSE m \in occ : \A n \in occ : m <= n
                 first == comps[k + 2]
             IN  Ok(IF SepOccursAt(comps, k + 2)
                    THEN SubSeq(first, 1, Len(first) - Len(SetlistFm))
                    ELSE first)

slug_to_plain(text) == Replace(text, "-", SP)

get_date_of_setlist_lenient(doc) ==
    IF Len(doc.dateBlockContainer) = 0 \/ Len(doc.dateBlockContainer[1].dateBlock) = 0
    THEN Ok(<<>>)
    ELSE Ok(Strip(Replace(doc.dateBlockContainer[1].dateBlock[1], LF, SP)))

get_date_of_setlist(doc) ==
    IF Len(doc.dateBlockContainer) = 0 \/ Len(doc.dateBlockContainer[1].dateBlock) = 0
    THEN Raise("SetlistError", "Failed to extract setlist date", <<>>)
    ELSE Ok(Strip(Replace(doc.dateBlockContainer[1].dateBlock[1], LF, SP)))

get_venue(doc) ==
    IF Len(doc.venueLink) = 0
    THEN Raise("SetlistError", "Failed to extract venue", <<>>)
    ELSE Ok(Strip(doc.venueLink[1]))

is_empty_setlist_never(doc) == FALSE

is_empty_setlist(doc) == doc.emptySetlist

RECURSIVE StrippedNonEmpty(_)
StrippedNonEmpty(labels) ==
    IF labels = <<>> THEN <<>>
    ELSE LET t == Strip(Head(labels))
         IN  (IF Len(t) > 0 THEN <<t>> ELSE <<>>) \o StrippedNonEmpty(Tail(labels))

get_song_labels(doc) ==
    IF Len(doc.songsLists) = 0
    THEN Raise("SetlistError", "Failed to extract song labels", <<>>)
    ELSE Ok(StrippedNonEmpty(doc.songsLists[1]))

get_song_link_reraising(resp) ==
    IF resp.error
    THEN [raised |-> SearchError, detail |-> "search failed", value |-> <<>>, logged |-> <<>>]
    ELSE IF Len(resp.items) = 0
    THEN [raised |-> NoExc, detail |-> "", value |-> <<>>,
          logged |-> <<LogRec("warning", "Could not find song", "")>>]
    ELSE [raised |-> NoExc, detail |-> "", value |-> <<resp.items[1]>>, logged |-> <<>>]

\* get_song_link, given what sp.search did: value is None (<<>>) or the first item's link
get_song_link(resp) ==
    IF resp.error
    THEN [raised |-> NoExc, detail |-> "", value |-> <<>>,
          logged |-> <<LogRec("error", "Error searching for song", SearchError)>>]
    ELSE IF Len(resp.items) = 0
    THEN [raised |-> NoExc, detail |-> "", value |-> <<>>,
          logged |-> <<LogRec("warning", "Could not find song", "")>>]
    ELSE [raised |-> NoExc, detail |-> "", value |-> <<resp.items[1]>>, logged |-> <<>>]

KeepLinkPrepending(links, link) == IF Len(link) = 0 THEN links ELSE <<link[1]>> \o links

\* one step of [link for link in (...) if link is not None]
KeepLink(links, link) == IF Len(link) = 0 THEN links ELSE Append(links, link[1])

NoSongLinksNever(links) == FALSE

\* not song_links
NoSongLinks(links) == Len(links) = 0

\* f"{artist} - {setlist_date} - {venue}".title()
PlaylistName(a, d, v) == Title(a \o <<SP, "-", SP>> \o d \o <<SP, "-", SP>> \o v)

create_playlist_swallowing(resp) ==
    IF resp \in PlaylistIds THEN Ok(resp) ELSE Ok("")

\* create_playlist, given what current_user / user_playlist_create did
create_playlist(resp) ==
    IF resp \in PlaylistIds
    THEN Ok(resp)
    ELSE Raise("SetlistError", "Failed to create playlist", "")

ExceptionClasses == {"RequestException", "SetlistError", "IndexError", "ValueError", SearchError}

HandlerWithoutCatchAll(e) ==
    CASE e.raised = "RequestException" ->
            [caught |-> TRUE, logged |-> LogRec("error", "Failed to fetch setlist", e.detail)]
      [] e.raised = "SetlistError" ->
            [caught |-> TRUE, logged |-> LogRec("error", "Error processing setlist", e.detail)]
      [] OTHER ->
            [caught |-> FALSE, logged |-> LogRec("error", "", "")]

\* the except clauses of process_setlist, in their order
Handler(e) ==
    CASE e.raised = "RequestException" ->
            [caught |-> TRUE, logged |-> LogRec("error", "Failed to fetch setlist", e.detail)]
      [] e.raised = "SetlistError" ->
            [caught |-> TRUE, logged |-> LogRec("error", "Error processing setlist", e.detail)]
      [] e.raised \in ExceptionClasses ->
            [caught |-> TRUE, logged |-> LogRec("error", "Unexpected error", e.detail)]
      [] OTHER ->
            [caught |-> FALSE, logged |-> LogRec("error", "", "")]

(* ------------------- SetlistConverter.process_setlist ------------------ *)
main_state == <<labelLimit, urls, public, idx, processed, url>>

\* if not self.validate_setlist_url(url): log, return
Validate ==
    /\ pc = "validate"
    /\ IF validate_setlist_url(url)
       THEN /\ pc' = "artist"
            /\ log' = log
       ELSE /\ pc' = "return"
            /\ log' = Append(log, LogRec("error", "Invalid setlist URL", ""))
    /\ UNCHANGED <<main_state, locals, exc, calls, invoked>>

\* artist = self.slug_to_plain(url.split("setlist.fm/setlist/")[1].split("/")[0])
DeriveArtist ==
    /\ pc = "artist"
    /\ LET r == url_artist_slug(url)
       IN  IF r.raised = NoExc
           THEN /\ artist' = slug_to_plain(r.value)
                /\ pc' = "fetch"
                /\ exc' = exc
           ELSE /\ artist' = artist
                /\ pc' = "except"
                /\ exc' = [raised |-> r.raised, detail |-> r.detail]
    /\ UNCHANGED <<main_state, souped, setlist_date, venue, song_labels, song_links,
                   nextLabel, resolved, playlist_name, playlist_id, calls, invoked, log>>

\* response = requests.get(url); response.raise_for_status(); souped = BeautifulSoup(...)
Fetch ==
    /\ pc = "fetch"
    /\ calls' = Append(calls, [op |-> "GET", url |-> url])
    /\ \E r \in {"ok", "ConnectionError", "HTTPError"} :
          IF r = "ok"
          THEN /\ \E d \in Docs(labelLimit) : souped' = <<d>>
               /\ pc' = "date"
               /\ exc' = exc
          ELSE /\ souped' = souped
               /\ pc' = "except"
               /\ exc' = [raised |-> "RequestException", detail |-> r]
    /\ UNCHANGED <<main_state, artist, setlist_date, venue, song_labels, song_links,
                   nextLabel, resolved, playlist_name, playlist_id, invoked, log>>

\* setlist_date = self.get_date_of_setlist(souped)
ExtractDate ==
    /\ pc = "date"
    /\ invoked' = invoked \cup {"get_date_of_setlist"}
    /\ LET r == get_date_of_setlist(souped[1])
       IN  IF r.raised = NoExc
           THEN /\ setlist_date' = r.value
                /\ pc' = "venue"
                /\ exc' = exc
           ELSE /\ setlist_date' = setlist_date
                /\ pc' = "except"
                /\ exc' = [raised |-> r.raised, detail |-> r.detail]
    /\ UNCHANGED <<main_state, artist, souped, venue, song_labels, song_links,
                   nextLabel, resolved, playlist_name, playlist_id, calls, log>>

\* venue = self.get_venue(souped)
ExtractVenue ==
    /\ pc = "venue"
    /\ invoked' = invoked \cup {"get_venue"}
    /\ LET r == get_venue(souped[1])
       IN  IF r.raised = NoExc
           THEN /\ venue' = r.value
                /\ pc' = "empty"
                /\ exc' = exc
           ELSE /\ venue' = venue
                /\ pc' = "except"
                /\ exc' = [raised |-> r.raised, detail |-> r.detail]
    /\ UNCHANGED <<main_state, artist, souped, setlist_date, song_labels, song_links,
                   nextLabel, resolved, playlist_name, playlist_id, calls, log>>

\* logger.info("Processing setlist ..."); if self.is_empty_setlist(souped): log, return
EmptyCheck ==
    /\ pc = "empty"
    /\ invoked' = invoked \cup {"is_empty_setlist"}
    /\ LET started == Append(log, LogRec("info", "Processing setlist", ""))
       IN  IF is_empty_setlist(souped[1])
           THEN /\ pc' = "return"
                /\ log' = Append(started, LogRec("warning", "Setlist is empty, skipping", ""))
           ELSE /\ pc' = "labels"
                /\ log' = started
    /\ UNCHANGED <<main_state, locals, exc, calls>>

\* song_labels = self.get_song_labels(souped)
ExtractLabels ==
    /\ pc = "labels"
    /\ invoked' = invoked \cup {"get_song_labels"}
    /\ LET r == get_song_labels(souped[1])
       IN  IF r.raised = NoExc
           THEN /\ song_labels' = r.value
                /\ pc' = "resolve"
                /\ exc' = exc
           ELSE /\ song_labels' = song_labels
                /\ pc' = "except"
                /\ exc' = [raised |-> r.raised, detail |-> r.detail]
    /\ UNCHANGED <<main_state, artist, souped, setlist_date, venue, song_links,
                   nextLabel, resolved, playlist_name, playlist_id, calls, log>>

\* one turn of the comprehension: self.get_song_link(artist, label), kept if not None
ResolveSong ==
    /\ pc = "resolve"
    /\ nextLabel <= Len(song_labels)
    /\ \E resp \in SearchResponses :
          /\ calls' = Append(calls, [op |-> "search", artist |-> artist,
                                     track |-> song_labels[nextLabel],
                                     response |-> ResponseKind(resp)])
          /\ LET r == get_song_link(resp)
             IN  IF r.raised = NoExc
                 THEN /\ resolved' = Append(resolved, r.value)
                      /\ song_links' = KeepLink(song_links, r.value)
                      /\ nextLabel' = nextLabel + 1
                      /\ log' = log \o r.logged
                      /\ pc' = pc
                      /\ exc' = exc
                 ELSE /\ UNCHANGED <<resolved, song_links, nextLabel, log>>
                      /\ pc' = "except"
                      /\ exc' = [raised |-> r.raised, detail |-> r.detail]
    /\ UNCHANGED <<main_state, artist, souped, setlist_date, venue, song_labels,
                   playlist_name, playlist_id, invoked>>

\* if not song_links: log, return;  playlist_name = f"...".title()
CheckLinks ==
    /\ pc = "resolve"
    /\ nextLabel > Len(song_labels)
    /\ IF NoSongLinks(song_links)
       THEN /\ pc' = "return"
            /\ log' = Append(log, LogRec("warning", "No songs found on Spotify", ""))
            /\ playlist_name' = playlist_name
       ELSE /\ pc' = "create"
            /\ log' = log
            /\ playlist_name' = PlaylistName(artist, setlist_date, venue)
    /\ UNCHANGED <<main_state, artist, souped, setlist_date, venue, song_labels, song_links,
                   nextLabel, resolved, playlist_id, exc, calls, invoked>>

\* playlist_id = self.create_playlist(playlist_name)
CreatePlaylist ==
    /\ pc = "create"
    /\ \E resp \in PlaylistIds \cup {"current_user_error", "create_error"} :
          /\ calls' = calls \o <<[op |-> "current_user"]>> \o
                      (IF resp = "current_user_error" THEN <<>>
                       ELSE <<[op |-> "create", name |-> playlist_name, public |-> public,
                               returned |-> IF resp \in PlaylistIds THEN <<resp>> ELSE <<>>]>>)
          /\ LET r == create_playlist(resp)
             IN  IF r.raised = NoExc
                 THEN /\ playlist_id' = r.value
                      /\ pc' = "add"
                      /\ exc' = exc
                 ELSE /\ playlist_id' = playlist_id
                      /\ pc' = "except"
                      /\ exc' = [raised |-> r.raised, detail |-> r.detail]
    /\ UNCHANGED <<main_state, artist, souped, setlist_date, venue, song_labels, song_links,
                   nextLabel, resolved, playlist_name, invoked, log>>

\* self.add_songs_to_playlist(playlist_id, song_links); logger.info("Created playlist")
AddSongs ==
    /\ pc = "add"
    /\ calls' = Append(calls, [op |-> "add", id |-> playlist_id, items |-> song_links])
    /\ \E ok \in BOOLEAN :
          IF ok
          THEN /\ pc' = "return"
               /\ log' = log \o <<LogRec("info", "Added songs to playlist", ""),
                                  LogRec("info", "Created playlist", "")>>
               /\ exc' = exc
          ELSE /\ pc' = "except"
               /\ log' = log
               /\ exc' = [raised |-> "SetlistError", detail |-> "Failed to add songs to playlist"]
    /\ UNCHANGED <<main_state, locals, invoked>>

\* except RequestException / SetlistError / Exception: logger.error(...)
Except ==
    /\ pc = "except"
    /\ LET h == Handler(exc)
       IN  IF h.caught
           THEN /\ pc' = "return"
                /\ log' = Append(log, h.logged)
                /\ exc' = NoException
           ELSE /\ pc' = "aborted"
                /\ log' = log
                /\ exc' = exc
    /\ UNCHANGED <<main_state, locals, calls, invoked>>

\* process_setlist returns to the for loop of main; its frame is gone
Return ==
    /\ pc = "return"
    /\ processed' = Append(processed, url)
    /\ pc' = "loop"
    /\ url' = NoUrl
    /\ FrameCleared
    /\ UNCHANGED <<labelLimit, urls, public, idx>>

Next ==
    \/ Setup
    \/ CallProcessSetlist
    \/ LoopEnd
    \/ Validate
    \/ DeriveArtist
    \/ Fetch
    \/ ExtractDate
    \/ ExtractVenue
    \/ EmptyCheck
    \/ ExtractLabels
    \/ ResolveSong
    \/ CheckLinks
    \/ CreatePlaylist
    \/ AddSongs
    \/ Except
    \/ Return

Spec == Init /\ [][Next]_vars

\* main run on one url at most, against pages of up to MaxLongSetlist song labels
InitLong == InitWith(MaxLongSetlist, {<<>>} \cup {<<u>> : u \in Urls})

SpecLong == InitLong /\ [][Next]_vars

(* ------------------------------ claims --------------------------------- *)
Last(q) == q[Len(q)]
CallsOf(op) == SelectSeq(calls, LAMBDA c : c.op = op)
HasCall(op) == \E i \in DOMAIN calls : calls[i].op = op
InProcessSetlist ==
    pc \in {"validate", "artist", "fetch", "date", "venue", "empty", "labels", "resolve",
            "create", "add", "except", "return"}
Fetched == Len(souped) = 1

\* host exactly www.setlist.fm and a path that contains /setlist/
ValidShape(u) ==
    /\ u.netloc = <<"www", ".", "setlist", ".", "fm">>
    /\ \E i \in 1..(Len(u.path) - 1) : u.path[i] = <<"setlist">>

StatsUrl == Url(WwwSetlistFm, <<<<"stats">>, SetlistSeg, ArtistSlug>>)

\* C1: a url that is not of the valid shape ends its processing with the
\* "Invalid setlist URL" log and without any network call (GET, search,
\* current user, create, add).
C1_InvalidUrlNoNetwork ==
    (InProcessSetlist /\ ~ValidShape(url)) =>
        /\ calls = <<>>
        /\ pc \in {"validate", "return"}
        /\ pc = "return" => log = <<LogRec("error", "Invalid setlist URL", "")>>

C1_Witness ==
    /\ pc = "return"
    /\ url.netloc = SetlistFm
    /\ PathHasSetlistDir(url.path)
    /\ calls = <<>>
    /\ log = <<LogRec("error", "Invalid setlist URL", "")>>

RECURSIVE ResolvedTracks(_)
ResolvedTracks(rs) == IF Len(rs) = 0 THEN <<>> ELSE Head(rs) \o ResolvedTracks(Tail(rs))

Searches == CallsOf("search")
SearchedTitles == LET S == Searches IN [j \in 1..Len(S) |-> S[j].track]

\* C2: the items of every add call are the values resolution returned for the
\* extracted titles, one per title and in the titles' order, with the
\* unresolved (None) ones left out: nothing reordered, duplicated or dropped.
C2_AddedTracksAreResolvedInOrder ==
    \A i \in DOMAIN calls :
        calls[i].op = "add" =>
            /\ Len(resolved) = Len(song_labels)
            /\ SearchedTitles = song_labels
            /\ calls[i].items = ResolvedTracks(resolved)

C2_Witness ==
    /\ pc = "return"
    /\ Len(song_labels) = 3
    /\ Len(resolved) = 3
    /\ Len(resolved[1]) = 1 /\ Len(resolved[2]) = 0 /\ Len(resolved[3]) = 1
    /\ resolved[1] # resolved[3]
    /\ HasCall("add")
    /\ Last(calls).items = <<resolved[1][1], resolved[3][1]>>

\* C3: nothing raised while a url is processed leaves process_setlist: the run
\* aborts only before the first call, the urls whose call returned are a prefix
\* of the input list in input order, each processed once, and at the end of
\* the loop all of them are.
C3_BatchNeverAborted ==
    /\ pc = "aborted" => (idx = 0 /\ processed = <<>>)
    /\ Len(processed) <= Len(urls)
    /\ processed = SubSeq(urls, 1, Len(processed))
    /\ InProcessSetlist => (Len(processed) = idx - 1 /\ url = urls[idx])
    /\ pc \in {"loop", "done"} => Len(processed) = idx
    /\ pc = "done" => processed = urls
    /\ (pc = "loop" /\ idx < Len(urls)) => ENABLED CallProcessSetlist

C3_Witness ==
    /\ pc = "return"
    /\ idx = 2
    /\ processed = <<StatsUrl>>
    /\ Last(log).msg = "Created playlist"

CreateFailed ==
    \E i \in DOMAIN calls :
        \/ calls[i].op = "create" /\ Len(calls[i].returned) = 0
        \/ calls[i].op = "current_user" /\ (i = Len(calls) \/ calls[i + 1].op # "create")

C4_State ==
    /\ CreateFailed =>
          /\ ~HasCall("add")
          /\ pc \in {"except", "return"}
          /\ pc = "except" =>
                exc = [raised |-> "SetlistError", detail |-> "Failed to create playlist"]
          /\ pc = "return" =>
                Last(log) = LogRec("error", "Error processing setlist",
                                   "Failed to create playlist")
    /\ \A i \in DOMAIN calls :
          calls[i].op = "add" =>
              /\ i > 1
              /\ calls[i - 1].op = "create"
              /\ calls[i - 1].returned = <<calls[i].id>>

C4_Step ==
    (CreateFailed /\ pc \in {"except", "return"}) =>
        /\ pc' \in {"return", "loop"}
        /\ idx' = idx
        /\ pc' = "loop" => processed' = Append(processed, url)

\* C4: after a failed create-playlist (or current-user) call no add call is
\* issued for that url, the failure is logged as an error and the call returns
\* to the loop; an add call always directly follows a create call and is given
\* the playlist id that create call returned.
C4_CreateFailureSkipsAdd == []C4_State /\ [][C4_Step]_vars

C4_Witness ==
    /\ pc = "return"
    /\ HasCall("create")
    /\ CreateFailed
    /\ ~HasCall("add")
    /\ idx < Len(urls)

\* C5: for a fetched page with the emptySetlist marker, get_song_labels is
\* never invoked and no search, current-user, create or add call is issued.
C5_EmptyMarkerShortCircuits ==
    (Fetched /\ souped[1].emptySetlist) =>
        /\ "get_song_labels" \notin invoked
        /\ ~HasCall("search") /\ ~HasCall("current_user")
        /\ ~HasCall("create") /\ ~HasCall("add")

C5_Witness ==
    /\ pc = "return"
    /\ Fetched
    /\ souped[1].emptySetlist
    /\ Len(souped[1].songsLists) = 1
    /\ Len(souped[1].songsLists[1]) >= 1
    /\ Last(log) = LogRec("warning", "Setlist is empty, skipping", "")

\* C6: no exception of the search leaves get_song_link: a search that failed
\* or found nothing resolves to None, and once the resolution is over the
\* search has been issued exactly once per extracted title, in their order.
C6_ResolveNeverRaises ==
    /\ exc.raised # SearchError
    /\ LET S == Searches
       IN  /\ Len(resolved) = Len(S)
           /\ \A j \in 1..Len(S) :
                 /\ S[j].artist = artist
                 /\ S[j].track = song_labels[j]
                 /\ S[j].response \in {"error", "empty"} => Len(resolved[j]) = 0
                 /\ S[j].response = "items" => Len(resolved[j]) = 1
    /\ ("get_song_labels" \in invoked /\ pc \in {"create", "add", "except", "return"}) =>
          SearchedTitles = song_labels

C6_Witness ==
    /\ pc = "create"
    /\ Len(Searches) = 2
    /\ Searches[1].response = "error"
    /\ Searches[2].response = "items"
    /\ Searches[1].track # Searches[2].track
    /\ resolved[1] = <<>>

SevenTerminalStates ==
    {"skipped-invalid-url", "skipped-fetch-error", "skipped-extraction-error",
     "skipped-empty-setlist", "skipped-no-matches", "playlist-created",
     "skipped-playlist-error"}

\* the terminal state a returning process_setlist call is in, by its last log record
TerminalState ==
    LET e == Last(log)
    IN  CASE e.msg = "Invalid setlist URL" -> "skipped-invalid-url"
          [] e.msg = "Failed to fetch setlist" -> "skipped-fetch-error"
          [] e.msg = "Error processing setlist" /\
             e.detail \in {"Failed to extract setlist date", "Failed to extract venue",
                           "Failed to extract song labels"} -> "skipped-extraction-error"
          [] e.msg = "Error processing setlist" /\
             e.detail \in {"Failed to create playlist",
                           "Failed to add songs to playlist"} -> "skipped-playlist-error"
          [] e.msg = "Setlist is empty, skipping" -> "skipped-empty-setlist"
          [] e.msg = "No songs found on Spotify" -> "skipped-no-matches"
          [] e.msg = "Created playlist" -> "playlist-created"
          [] OTHER -> "other"

\* C7: a process_setlist call never leaves main, and when it returns it is in
\* one of the seven terminal states, after at most one GET, one create and one
\* add call.
C7_SevenTerminalStates ==
    /\ pc = "aborted" => idx = 0
    /\ pc = "return" =>
          /\ Len(log) > 0
          /\ TerminalState \in SevenTerminalStates
    /\ Len(CallsOf("GET")) <= 1
    /\ Len(CallsOf("create")) <= 1
    /\ Len(CallsOf("add")) <= 1

DateContainerMissing == Fetched /\ Len(souped[1].dateBlockContainer) = 0

C8_State ==
    (DateContainerMissing /\ pc # "date") =>
        /\ pc \in {"except", "return"}
        /\ invoked = {"get_date_of_setlist"}
        /\ ~HasCall("search") /\ ~HasCall("current_user")
        /\ ~HasCall("create") /\ ~HasCall("add")
        /\ pc = "except" =>
              exc = [raised |-> "SetlistError", detail |-> "Failed to extract setlist date"]
        /\ pc = "return" =>
              Last(log) = LogRec("error", "Error processing setlist",
                                 "Failed to extract setlist date")

C8_Step ==
    (DateContainerMissing /\ pc \in {"except", "return"}) =>
        /\ pc' \in {"return", "loop"}
        /\ idx' = idx
        /\ pc' = "loop" => processed' = Append(processed, url)

\* C8: on a fetched page without the date container get_date_of_setlist raises
\* SetlistError, which is logged; the call issues no search, current-user,
\* create or add call and returns to the loop.
C8_MissingDateSkipsUrl == []C8_State /\ [][C8_Step]_vars

C8_Witness ==
    /\ pc = "return"
    /\ DateContainerMissing
    /\ Len(souped[1].venueLink) = 1
    /\ ~souped[1].emptySetlist
    /\ Last(log).detail = "Failed to extract setlist date"
    /\ idx < Len(urls)

NoneResolved == \A j \in 1..Len(resolved) : Len(resolved[j]) = 0

\* C9: a current-user or create call is issued only once every title of the
\* setlist has been resolved, after the last search, and only if a title
\* resolved; an add call has a non-empty track list; with no resolved title
\* there is no create and no add call.
C9_PlaylistOnlyWithTracks ==
    /\ \A i \in DOMAIN calls :
          calls[i].op \in {"current_user", "create"} =>
              /\ Len(resolved) = Len(song_labels)
              /\ ~NoneResolved
              /\ \A j \in DOMAIN calls : calls[j].op = "search" => j < i
    /\ \A i \in DOMAIN calls : calls[i].op = "add" => Len(calls[i].items) > 0
    /\ NoneResolved =>
          /\ ~HasCall("current_user") /\ ~HasCall("create") /\ ~HasCall("add")
          /\ pc \notin {"create", "add"}

C9_Witness ==
    /\ pc = "return"
    /\ Len(song_labels) = 2
    /\ Len(resolved) = 2
    /\ NoneResolved
    /\ Last(log) = LogRec("warning", "No songs found on Spotify", "")
    /\ ~HasCall("create")

\* C10: a url of the valid shape never ends its processing (in the handler or
\* at the return) before the GET was issued.
C10_ValidUrlReachesFetch ==
    (InProcessSetlist /\ ValidShape(url) /\ pc \in {"except", "return"}) => HasCall("GET")

====
